---- MODULE Spec2Model ----
(***************************************************************************)
(* Model of the Python Code Runner piece: the host executor                *)
(* (runPythonCode.run) and the container executor                          *)
(* (runPythonCodeSandboxed.run), one invocation of one of the two actions. *)
(***************************************************************************)
EXTENDS Integers, Sequences, FiniteSets, TLC

(***************************************************************************)
(* Bounds                                                                  *)
(***************************************************************************)
\* longest stdout text a finished script/container is given
MaxStdoutLen == 3
\* longest stdout text captured before a failing run was stopped
MaxPartialLen == 1

(***************************************************************************)
(* JavaScript values: tagged records, so that values of different kinds    *)
(* can be compared.                                                        *)
(***************************************************************************)
Undefined == [t |-> "undefined", v |-> 0]
Null == [t |-> "null", v |-> 0]
Str(s) == [t |-> "str", v |-> s]
Num(n) == [t |-> "num", v |-> n]
Arr(items) == [t |-> "arr", v |-> items]

\* JS truthiness of a value (operands of ||, &&, ?:)
Truthy(x) ==
    CASE x.t = "undefined" -> FALSE
      [] x.t = "null" -> FALSE
      [] x.t = "str" -> x.v # <<>>
      [] x.t = "num" -> x.v # 0
      [] OTHER -> TRUE

\* a || b
Or(a, b) == IF Truthy(a) THEN a ELSE b

(***************************************************************************)
(* Texts are sequences of one-character strings over a small alphabet.     *)
(***************************************************************************)
Alphabet == {" ", "1", "[", "]", "h"}
Whitespace == {" "}
Digits == {"1"}

RECURSIVE TextsUpTo(_)
TextsUpTo(n) ==
    IF n = 0 THEN {<<>>}
    ELSE LET shorter == TextsUpTo(n - 1)
         IN shorter \cup {Append(s, c) : s \in {x \in shorter : Len(x) = n - 1}, c \in Alphabet}

StdoutTexts == TextsUpTo(MaxStdoutLen)
PartialTexts == TextsUpTo(MaxPartialLen)
StderrTexts == {<<>>, <<"h">>}

\* String.prototype.trim: drop leading and trailing whitespace
RECURSIVE TrimLeft(_)
TrimLeft(s) ==
    IF s # <<>> /\ Head(s) \in Whitespace THEN TrimLeft(Tail(s)) ELSE s

RECURSIVE TrimRight(_)
TrimRight(s) ==
    IF s # <<>> /\ s[Len(s)] \in Whitespace
    THEN TrimRight(SubSeq(s, 1, Len(s) - 1))
    ELSE s

Trim(s) == TrimRight(TrimLeft(s))

(***************************************************************************)
(* JSON.parse, as a recursive-descent parser over the alphabet: numbers    *)
(* are digit runs, arrays hold at most one element (the alphabet has no    *)
(* comma), whitespace is allowed around every value.                       *)
(***************************************************************************)
RECURSIVE SkipWs(_, _)
SkipWs(s, i) ==
    IF i <= Len(s) /\ s[i] \in Whitespace THEN SkipWs(s, i + 1) ELSE i

RECURSIVE ScanDigits(_, _, _)
ScanDigits(s, i, acc) ==
    IF i <= Len(s) /\ s[i] \in Digits
    THEN ScanDigits(s, i + 1, 10 * acc + 1)
    ELSE [ok |-> TRUE, val |-> Num(acc), next |-> i]

ParseFail == [ok |-> FALSE, val |-> Undefined, next |-> 0]

RECURSIVE ParseValue(_, _)
ParseValue(s, i) ==
    LET j == SkipWs(s, i)
    IN  IF j > Len(s) THEN ParseFail
        ELSE IF s[j] \in Digits THEN ScanDigits(s, j, 0)
        ELSE IF s[j] = "["
        THEN LET k == SkipWs(s, j + 1)
             IN  IF k <= Len(s) /\ s[k] = "]"
                 THEN [ok |-> TRUE, val |-> Arr(<<>>), next |-> k + 1]
                 ELSE LET inner == ParseValue(s, k)
                          m == SkipWs(s, inner.next)
                      IN  IF inner.ok /\ m <= Len(s) /\ s[m] = "]"
                          THEN [ok |-> TRUE, val |-> Arr(<<inner.val>>), next |-> m + 1]
                          ELSE ParseFail
        ELSE ParseFail

\* [ok |-> FALSE] stands for the SyntaxError JSON.parse throws
JSONParse(s) ==
    LET r == ParseValue(s, 1)
    IN  IF r.ok /\ SkipWs(s, r.next) > Len(s)
        THEN [ok |-> TRUE, val |-> r.val]
        ELSE [ok |-> FALSE, val |-> Undefined]


\* variant: the fallback keeps the untrimmed text
ParseOutputNoTrim(stdout) ==
    LET parsed == JSONParse(Trim(stdout))
    IN  IF parsed.ok THEN parsed.val ELSE Str(stdout)

\* try { parsedOutput = JSON.parse(stdout.trim()) } catch { parsedOutput = stdout.trim() }
ParseOutput(stdout) ==
    LET parsed == JSONParse(Trim(stdout))
    IN  IF parsed.ok THEN parsed.val ELSE Str(Trim(stdout))

(***************************************************************************)
(* Inputs of one invocation                                                *)
(***************************************************************************)
\* requirements: optional LongText
ReqInputs == {Undefined, Str(<<>>), Str(<<" ">>), Str(<<"1">>)}
\* timeout: optional Number (seconds)
TimeoutInputs == {Undefined, Num(0), Num(2), Num(-1)}
PythonVersions == {"python3"}
Platforms == {"linux", "win32"}
\* randomBytes(8).toString('hex')
Tokens == {"a1b2c3d4e5f60718"}
ActionNames == {"run-python-code", "run-python-code-sandboxed"}

VARIABLES
    action,           \* which action of the piece the platform invoked
    props,            \* context.propsValue
    platform,         \* process.platform
    token,            \* the random hex token of the temp directory
    hpc,              \* position in runPythonCode.run
    isDocker,         \* whether the host was detected to be a container
    useVenv, pipCommand, pythonCommand,   \* locals of runPythonCode.run
    cmdLog,           \* commands spawned through execAsync, in order
    fsLog,            \* file-system mutations made by the executor's steps
    proc,             \* what the script process did
    result,           \* the object a return statement has evaluated
    outcome,          \* what the caller of run() observed
    cleanupAttempts,  \* number of rmdirSync(tempDir) calls
    cleanupFailed,    \* whether rmdirSync threw
    bpc,              \* position in runPythonCodeSandboxed.run
    container,        \* life cycle of the request's container in the engine
    exitStatus,       \* StatusCode the container exited with
    timer,            \* the setTimeout handle guarding container execution
    killCalls,        \* number of container.kill() calls
    stdoutBuf, stderrBuf,   \* the stdout / stderr accumulators of the 'data' handler
    executionTimeout, \* the delay the kill timer was armed with
    wire,             \* chunks of the attached stream not yet handed to the 'data' handler
    emitted,          \* what the container wrote to its stdout and stderr
    dockerLog,        \* engine API calls made, in order, with their success
    failed,           \* the step whose rejection reached the outer catch, and its error
    frames, chunks, demux,   \* the 'data' handler alone: frames sent, chunks to come, buffers
    sh,               \* the container's command alone: the shell running setupScript
    reqs, disk, site  \* host requests in flight together, the files on disk, the user site

\* the studies of single parts of the executors, which no step of a request touches
aside == <<frames, chunks, demux, sh, reqs, disk, site>>
inputs == <<action, props, platform, token, aside>>
hostVars == <<action, props, platform, token, hpc, isDocker, useVenv, pipCommand,
              pythonCommand, cmdLog, fsLog, proc, result, outcome,
              cleanupAttempts, cleanupFailed>>
boxVars == <<bpc, container, exitStatus, timer, killCalls, stdoutBuf, stderrBuf,
             executionTimeout, wire, emitted, dockerLog, failed>>
\* the host executor's state other than what both executors share
hostLocals == <<hpc, isDocker, useVenv, pipCommand, pythonCommand, cmdLog, fsLog, proc,
                cleanupAttempts, cleanupFailed>>
vars == <<hostVars, boxVars, aside>>

(***************************************************************************)
(* Paths: sequences of segments; PathStr renders one into a command line.  *)
(***************************************************************************)
Join(p, name) == Append(p, name)

RECURSIVE PathStr(_)
PathStr(p) ==
    IF Len(p) = 1 THEN p[1]
    ELSE PathStr(SubSeq(p, 1, Len(p) - 1)) \o "/" \o p[Len(p)]

IsUnder(p, dir) == Len(p) >= Len(dir) /\ SubSeq(p, 1, Len(dir)) = dir

\* variant: the directory name does not depend on the token
TempDirShared(tok) == Join(<<"/tmp">>, "python-exec-")

\* join('/tmp', `python-exec-${randomBytes(8).toString('hex')}`)
TempDirOf(tok) == Join(<<"/tmp">>, "python-exec-" \o tok)

tempDir == TempDirOf(token)
scriptPath == Join(tempDir, "script.py")
venvPath == Join(tempDir, "venv")
requirementsPath == Join(tempDir, "requirements.txt")
\* where "pip install --user" puts packages: the user site of the home directory
UserSite == <<"~", ".local", "lib">>

BinDir == IF platform = "win32" THEN "Scripts" ELSE "bin"
pipPath == Join(Join(venvPath, BinDir), "pip")
pythonPath == Join(Join(venvPath, BinDir), "python")

Range(f) == {f[i] : i \in DOMAIN f}

(***************************************************************************)
(* Errors: message is a sequence of phrases, so that String.includes is a  *)
(* membership test on phrases.                                             *)
(***************************************************************************)
Err(message, out, err, code) ==
    [message |-> message, stdout |-> out, stderr |-> err, code |-> code]

Includes(message, phrase) == \E i \in DOMAIN message : message[i] = phrase

\* the error child_process.exec rejects with
ExecError(argv, out, err, code) ==
    Err(<<"Command failed:">> \o argv \o err, Str(out), Str(err), code)

\* the error a failing fs call throws
FsError(op) == Err(<<"EACCES: permission denied,", op>>, Undefined, Undefined, Str("EACCES"))

\* exec rejects a timeout option that is not a non-negative integer
RangeError == Err(<<"The value of \"timeout\" is out of range.">>, Undefined, Undefined,
                  Str("ERR_OUT_OF_RANGE"))

NaN == [t |-> "nan", v |-> 0]
Times(x, n) == IF x.t = "num" THEN Num(x.v * n) ELSE NaN
ValidTimeout(ms) == ms.t = "num" /\ ms.v >= 0

(***************************************************************************)
(* Result objects                                                          *)
(***************************************************************************)
NoResult == [success |-> FALSE, output |-> Undefined, stdout |-> Undefined,
             stderr |-> Undefined, error |-> <<>>, code |-> Undefined, built |-> FALSE]

\* variant: the success object carries the output whatever captureOutput says
SuccessResultAlwaysCaptured(out, err, captureOutput) ==
    [success |-> TRUE, output |-> ParseOutput(out), stdout |-> Str(out), stderr |-> Str(err),
     error |-> <<>>, code |-> Undefined, built |-> TRUE]

\* return { success: true, output, stdout: captureOutput ? stdout : undefined, ... }
SuccessResult(out, err, captureOutput) ==
    [success |-> TRUE, output |-> ParseOutput(out),
     stdout |-> IF captureOutput THEN Str(out) ELSE Undefined,
     stderr |-> IF captureOutput THEN Str(err) ELSE Undefined,
     error |-> <<>>, code |-> Undefined, built |-> TRUE]


\* variant: the catch block drops what the failed command had captured
CatchResultNoCapture(error) ==
    [success |-> FALSE, output |-> Undefined, stdout |-> Str(<<>>), stderr |-> Str(<<>>),
     error |-> error.message, code |-> Undefined, built |-> TRUE]

\* catch (error) { return { success: false, error: error.message, stdout: error.stdout || '', ... } }
CatchResult(error) ==
    [success |-> FALSE, output |-> Undefined,
     stdout |-> Or(error.stdout, Str(<<>>)),
     stderr |-> Or(error.stderr, Str(<<>>)),
     error |-> error.message, code |-> error.code, built |-> TRUE]

NoOutcome == [kind |-> "none", value |-> NoResult]
Returned(r) == [kind |-> "returned", value |-> r]
Thrown(e) == [kind |-> "thrown", value |-> e]

NoProc == [ran |-> FALSE, status |-> "none", exit |-> Null, stdout |-> <<>>, stderr |-> <<>>]

(***************************************************************************)
(* The host executor: runPythonCode.run                                    *)
(***************************************************************************)
IsHost == action = "run-python-code"

\* the source holds a second runPythonCode, with a plain venv and no fallback
PlainVenvName == "run-python-code (plain venv)"
IsPlain == action = PlainVenvName
HostVariants == {"run-python-code", PlainVenvName}
\* the script execution, the catch and the finally are the same text in both
IsHostVariant == action \in HostVariants

Cmd(argv, ms, ok) == [argv |-> argv, timeout |-> ms, ok |-> ok]
FsOp(op, path) == [op |-> op, path |-> path]

\* requirements && requirements.trim()
ReqDeclared == Truthy(props.requirements) /\ Truthy(Str(Trim(props.requirements.v)))

\* variant: pip of the venv whatever the mode
ResolvePipAlwaysVenv(uv) == <<PathStr(pipPath)>>

\* pipCommand / pythonCommand for the chosen mode
ResolvePip(uv) == IF uv THEN <<PathStr(pipPath)>> ELSE <<props.pythonVersion, "-m", "pip">>

\* variant: the system-Python branch is missing
ResolvePythonAlwaysVenv(uv) == <<PathStr(pythonPath)>>

ResolvePython(uv) == IF uv THEN <<PathStr(pythonPath)>> ELSE <<props.pythonVersion>>

\* the code between the venv block and the first await after it
AfterVenv(uv) ==
    /\ useVenv' = uv
    /\ pipCommand' = ResolvePip(uv)
    /\ pythonCommand' = ResolvePython(uv)
    /\ hpc' = IF ReqDeclared THEN "writeRequirements" ELSE "runScript"

\* control reaches the outer catch with this error
Caught(error) ==
    /\ result' = CatchResult(error)
    /\ hpc' = "finally"

\* const isDocker = env || existsSync('/.dockerenv') || (existsSync(cgroup) && readFileSync(cgroup)...)
\* readFileSync is evaluated outside the try block
HostDetect ==
    /\ IsHost /\ hpc = "detect"
    /\ \E env \in BOOLEAN, dockerenv \in BOOLEAN,
          cgroup \in {"absent", "docker", "other", "unreadable"} :
          IF ~env /\ ~dockerenv /\ cgroup = "unreadable"
          THEN /\ outcome' = Thrown(FsError("open '/proc/1/cgroup'"))
               /\ hpc' = "rejected"
               /\ UNCHANGED <<isDocker, useVenv>>
          ELSE /\ isDocker' = (env \/ dockerenv \/ cgroup = "docker")
               /\ useVenv' = ~isDocker'
               /\ hpc' = "mkdir"
               /\ UNCHANGED outcome
    /\ UNCHANGED <<inputs, pipCommand, pythonCommand, cmdLog,
                   fsLog, proc, result, cleanupAttempts, cleanupFailed, boxVars>>

\* mkdirSync(tempDir, { recursive: true })
HostMkdir ==
    /\ IsHost /\ hpc = "mkdir"
    /\ \/ /\ fsLog' = Append(fsLog, FsOp("mkdir", tempDir))
          /\ hpc' = "writeScript"
          /\ UNCHANGED result
       \/ /\ Caught(FsError("mkdir"))
          /\ UNCHANGED fsLog
    /\ UNCHANGED <<inputs, isDocker, useVenv, pipCommand, pythonCommand,
                   cmdLog, proc, outcome, cleanupAttempts, cleanupFailed, boxVars>>

\* writeFileSync(scriptPath, code); if (useVenv) ... else resolve the commands
HostWriteScript ==
    /\ IsHost /\ hpc = "writeScript"
    /\ \/ /\ fsLog' = Append(fsLog, FsOp("write", scriptPath))
          /\ IF useVenv
             THEN hpc' = "pythonCheck" /\ UNCHANGED <<useVenv, pipCommand, pythonCommand>>
             ELSE AfterVenv(FALSE)
          /\ UNCHANGED result
       \/ /\ Caught(FsError("open"))
          /\ UNCHANGED <<fsLog, useVenv, pipCommand, pythonCommand>>
    /\ UNCHANGED <<inputs, isDocker, cmdLog, proc, outcome,
                   cleanupAttempts, cleanupFailed, boxVars>>

\* variables no step between the try and the finally touches
hostFrame == <<inputs, isDocker, outcome, cleanupAttempts, cleanupFailed, boxVars>>

\* await execAsync(`${pythonVersion} --version`, { timeout: 5000 })
HostPythonCheck ==
    /\ IsHost /\ hpc = "pythonCheck"
    /\ \E ok \in BOOLEAN :
          /\ cmdLog' = Append(cmdLog, Cmd(<<props.pythonVersion, "--version">>, Num(5000), ok))
          /\ hpc' = IF ok THEN "venvCheck" ELSE "venvCopies"
    /\ UNCHANGED <<useVenv, pipCommand, pythonCommand, fsLog, proc, result, hostFrame>>

\* await execAsync(`${pythonVersion} -m venv --help`, { timeout: 5000 }).catch(err => { throw ... })
HostVenvCheck ==
    /\ IsHost /\ hpc = "venvCheck"
    /\ \E ok \in BOOLEAN :
          /\ cmdLog' = Append(cmdLog,
                 Cmd(<<props.pythonVersion, "-m", "venv", "--help">>, Num(5000), ok))
          /\ hpc' = IF ok THEN "venvCreate" ELSE "venvCopies"
    /\ UNCHANGED <<useVenv, pipCommand, pythonCommand, fsLog, proc, result, hostFrame>>

\* await execAsync(`${pythonVersion} -m venv ${venvPath}`, { timeout: 10000 })
HostVenvCreate ==
    /\ IsHost /\ hpc = "venvCreate"
    /\ \E ok \in BOOLEAN :
          /\ cmdLog' = Append(cmdLog,
                 Cmd(<<props.pythonVersion, "-m", "venv", PathStr(venvPath)>>, Num(10000), ok))
          /\ fsLog' = Append(fsLog, FsOp("venv", venvPath))
          /\ IF ok THEN AfterVenv(TRUE)
                   ELSE hpc' = "venvCopies" /\ UNCHANGED <<useVenv, pipCommand, pythonCommand>>
    /\ UNCHANGED <<proc, result, hostFrame>>

\* catch: await execAsync(`${pythonVersion} -m venv --copies ${venvPath}`, ...); catch: useVenv = false
HostVenvCopies ==
    /\ IsHost /\ hpc = "venvCopies"
    /\ \E ok \in BOOLEAN :
          /\ cmdLog' = Append(cmdLog,
                 Cmd(<<props.pythonVersion, "-m", "venv", "--copies", PathStr(venvPath)>>,
                     Num(10000), ok))
          /\ fsLog' = Append(fsLog, FsOp("venv", venvPath))
          /\ AfterVenv(ok)
    /\ UNCHANGED <<proc, result, hostFrame>>

\* writeFileSync(requirementsPath, requirements)
HostWriteRequirements ==
    /\ IsHost /\ hpc = "writeRequirements"
    /\ \/ /\ fsLog' = Append(fsLog, FsOp("write", requirementsPath))
          /\ hpc' = "pipCheck"
          /\ UNCHANGED result
       \/ /\ Caught(FsError("open"))
          /\ UNCHANGED fsLog
    /\ UNCHANGED <<useVenv, pipCommand, pythonCommand, cmdLog, proc, hostFrame>>

PipNotInstalled ==
    Err(<<"pip is not installed", ". Please ensure pip is available in your Python environment.">>,
        Undefined, Undefined, Undefined)

PipNotAvailable ==
    Err(<<"Cannot install Python packages: ", "pip is not available",
          ". To use packages, please ensure pip is installed in your environment.">>,
        Undefined, Undefined, Undefined)


\* variant: the failed pip check is swallowed
PipCheckRejectionSwallowed(err) == [thrown |-> FALSE, error |-> err]

\* .catch(err => { throw new Error(`pip is not installed. ...`) }) on the pip check
PipCheckRejection(err) == [thrown |-> TRUE, error |-> PipNotInstalled]

\* catch (pipError) { if (message.includes(...) || message.includes(...)) throw new Error(...); throw pipError }
PipCatch(pipError) ==
    IF Includes(pipError.message, "No module named pip")
       \/ Includes(pipError.message, "pip is not installed")
    THEN PipNotAvailable
    ELSE pipError

\* const pipCheckCmd = useVenv ? `${pipCommand} --version` : `${pythonVersion} -m pip --version`
PipCheckCmd ==
    IF useVenv THEN pipCommand \o <<"--version">>
               ELSE <<props.pythonVersion, "-m", "pip", "--version">>

\* stderr texts of a failing pip
PipStderrs == {<<>>, <<"No module named pip">>}

HostPipCheck ==
    /\ IsHost /\ hpc = "pipCheck"
    /\ \/ /\ cmdLog' = Append(cmdLog, Cmd(PipCheckCmd, Num(5000), TRUE))
          /\ hpc' = "pipInstall"
          /\ UNCHANGED result
       \/ \E err \in PipStderrs :
             LET rejection == PipCheckRejection(ExecError(PipCheckCmd, <<>>, err, Num(1)))
             IN  /\ cmdLog' = Append(cmdLog, Cmd(PipCheckCmd, Num(5000), FALSE))
                 /\ IF rejection.thrown
                    THEN Caught(PipCatch(rejection.error))
                    ELSE hpc' = "pipInstall" /\ UNCHANGED result
    /\ UNCHANGED <<useVenv, pipCommand, pythonCommand, fsLog, proc, hostFrame>>


\* variant: --user is passed in every mode
PipInstallCmdAlwaysUser ==
    pipCommand \o <<"install", "--user", "-r", PathStr(requirementsPath)>>

\* const pipInstallCmd = useVenv ? `${pipCommand} install -r ...` : `${pipCommand} install --user -r ...`
PipInstallCmd ==
    IF useVenv THEN pipCommand \o <<"install", "-r", PathStr(requirementsPath)>>
               ELSE pipCommand \o <<"install", "--user", "-r", PathStr(requirementsPath)>>

\* where a pip install command line puts the packages
InstallTarget(argv) ==
    IF "--user" \in Range(argv) THEN UserSite ELSE Join(venvPath, "lib")

\* await execAsync(pipInstallCmd, { timeout: timeout * 1000 })
HostPipInstall ==
    /\ IsHost /\ hpc = "pipInstall"
    /\ LET ms == Times(props.timeout, 1000)
       IN  IF ~ValidTimeout(ms)
           THEN /\ Caught(PipCatch(RangeError))
                /\ UNCHANGED <<cmdLog, fsLog>>
           ELSE /\ fsLog' = Append(fsLog, FsOp("install", InstallTarget(PipInstallCmd)))
                /\ \/ /\ cmdLog' = Append(cmdLog, Cmd(PipInstallCmd, ms, TRUE))
                      /\ hpc' = "runScript"
                      /\ UNCHANGED result
                   \/ \E err \in PipStderrs, code \in {Num(1), Null} :
                         /\ code = Null => ms.v > 0
                         /\ cmdLog' = Append(cmdLog, Cmd(PipInstallCmd, ms, FALSE))
                         /\ Caught(PipCatch(ExecError(PipInstallCmd, <<>>, err, code)))
    /\ UNCHANGED <<useVenv, pipCommand, pythonCommand, proc, hostFrame>>

\* exit statuses of a failing script
FailCodes == {1, 2}

\* const { stdout, stderr } = await execAsync(`${pythonCommand} ${scriptPath}`, execOptions);
\* parse the output and return the success object
HostRunScript ==
    /\ IsHostVariant /\ hpc = "runScript"
    /\ LET ms == Times(Or(props.timeout, Num(30)), 1000)
           argv == pythonCommand \o <<PathStr(scriptPath)>>
       IN  IF ~ValidTimeout(ms)
           THEN /\ Caught(RangeError)
                /\ UNCHANGED <<cmdLog, proc>>
           ELSE \/ \E out \in StdoutTexts, err \in StderrTexts :
                      /\ cmdLog' = Append(cmdLog, Cmd(argv, ms, TRUE))
                      /\ proc' = [ran |-> TRUE, status |-> "exit", exit |-> Num(0),
                                  stdout |-> out, stderr |-> err]
                      /\ result' = SuccessResult(out, err, props.captureOutput)
                      /\ hpc' = "finally"
                \/ \E out \in PartialTexts, err \in StderrTexts, code \in FailCodes :
                      /\ cmdLog' = Append(cmdLog, Cmd(argv, ms, FALSE))
                      /\ proc' = [ran |-> TRUE, status |-> "exit", exit |-> Num(code),
                                  stdout |-> out, stderr |-> err]
                      /\ Caught(ExecError(argv, out, err, Num(code)))
                \/ \E out \in PartialTexts, err \in StderrTexts :
                      /\ ms.v > 0
                      /\ cmdLog' = Append(cmdLog, Cmd(argv, ms, FALSE))
                      /\ proc' = [ran |-> TRUE, status |-> "timeout", exit |-> Null,
                                  stdout |-> out, stderr |-> err]
                      /\ Caught(ExecError(argv, out, err, Null))
                \/ \E out \in PartialTexts, err \in StderrTexts :
                      /\ cmdLog' = Append(cmdLog, Cmd(argv, ms, FALSE))
                      /\ proc' = [ran |-> TRUE, status |-> "maxBuffer", exit |-> Null,
                                  stdout |-> out, stderr |-> err]
                      /\ Caught(Err(<<"stdout maxBuffer length exceeded">>, Str(out), Str(err),
                                    Str("ERR_CHILD_PROCESS_STDIO_MAXBUFFER")))
    /\ UNCHANGED <<useVenv, pipCommand, pythonCommand, fsLog, hostFrame>>


\* variant: the cleanup error escapes the finally block
FinallyOutcomeRethrow(rmOk, r) == IF rmOk THEN Returned(r) ELSE Thrown(FsError("rmdir"))

\* what the caller gets once the finally block has run; a cleanup error is caught and logged
FinallyOutcome(rmOk, r) == Returned(r)

\* finally { try { rmdirSync(tempDir, { recursive: true }) } catch (cleanupError) { console.error } }
HostFinally ==
    /\ IsHostVariant /\ hpc = "finally"
    /\ \E rmOk \in BOOLEAN :
          /\ cleanupAttempts' = cleanupAttempts + 1
          /\ cleanupFailed' = ~rmOk
          /\ fsLog' = Append(fsLog, FsOp("rmdir", tempDir))
          /\ outcome' = FinallyOutcome(rmOk, result)
          /\ hpc' = "done"
    /\ UNCHANGED <<inputs, isDocker, useVenv, pipCommand, pythonCommand, cmdLog, proc,
                   result, boxVars>>

HostNext ==
    \/ HostDetect \/ HostMkdir \/ HostWriteScript
    \/ HostPythonCheck \/ HostVenvCheck \/ HostVenvCreate \/ HostVenvCopies
    \/ HostWriteRequirements \/ HostPipCheck \/ HostPipInstall
    \/ HostRunScript \/ HostFinally

(***************************************************************************)
(* The container executor: runPythonCodeSandboxed.run                      *)
(***************************************************************************)
IsBox == action = "run-python-code-sandboxed"

DockerErr(message, statusCode) == [message |-> message, statusCode |-> statusCode]

\* errors an engine API call can reject with
SocketError == DockerErr(<<"connect ENOENT", " /var/run/docker.sock">>, Undefined)
NotFoundError == DockerErr(<<"(HTTP code 404) no such container or image">>, Num(404))
ServerError == DockerErr(<<"(HTTP code 500) server error">>, Num(500))
EngineErrors == {SocketError, NotFoundError, ServerError}
\* the err followProgress hands to its callback: a plain Error without statusCode
ProgressError == DockerErr(<<"pull access denied, repository does not exist">>, Undefined)

SocketNotFound ==
    DockerErr(<<"Docker socket not found.",
                " Please ensure Docker is running and the socket is mounted">>, Undefined)
ImageNotFound ==
    DockerErr(<<"Docker image ", "python:slim", " not found and could not be pulled.",
                " Please check your internet connection.">>, Undefined)

\* the if / else if / else of the outer catch
Translate(error) ==
    IF Includes(error.message, "connect ENOENT") THEN SocketNotFound
    ELSE IF error.statusCode = Num(404) THEN ImageNotFound
    ELSE error

Call(name, ok) == [call |-> name, ok |-> ok]

\* control reaches the outer catch with this error, raised by this step
BoxCatch(step, error) ==
    /\ failed' = [step |-> step, error |-> error]
    /\ outcome' = Thrown(Translate(error))
    /\ bpc' = "done"

\* return { success: true, output: parsedOutput, stdout, stderr, ... }
BoxResult(out, err) ==
    [success |-> TRUE, output |-> ParseOutput(out), stdout |-> Str(out), stderr |-> Str(err),
     error |-> <<>>, code |-> Undefined, built |-> TRUE]

\* variables of the engine side and of the race, untouched by the steps before start
boxIdle == <<exitStatus, timer, killCalls, stdoutBuf, stderrBuf, executionTimeout, wire,
             emitted, result, hostLocals>>

\* variant: a failed inspect is ignored
AfterInspectNoPull(ok) == "createContainer"

\* try { await inspect() } catch { pull }: the step that follows the inspect
AfterInspect(ok) == IF ok THEN "createContainer" ELSE "pull"

\* await docker.getImage(imageName).inspect()
BoxInspect ==
    /\ IsBox /\ bpc = "inspect"
    /\ \E ok \in BOOLEAN :
          /\ dockerLog' = Append(dockerLog, Call("inspect", ok))
          /\ bpc' = AfterInspect(ok)
    /\ UNCHANGED <<inputs, container, failed, outcome, boxIdle>>

\* const stream = await docker.pull(imageName)
BoxPull ==
    /\ IsBox /\ bpc = "pull"
    /\ \/ /\ dockerLog' = Append(dockerLog, Call("pull", TRUE))
          /\ bpc' = "followProgress"
          /\ UNCHANGED <<failed, outcome>>
       \/ \E e \in EngineErrors :
             /\ dockerLog' = Append(dockerLog, Call("pull", FALSE))
             /\ BoxCatch("pull", e)
    /\ UNCHANGED <<inputs, container, boxIdle>>

\* await new Promise((resolve, reject) => docker.modem.followProgress(stream, ...))
BoxFollowProgress ==
    /\ IsBox /\ bpc = "followProgress"
    /\ \/ /\ dockerLog' = Append(dockerLog, Call("followProgress", TRUE))
          /\ bpc' = "createContainer"
          /\ UNCHANGED <<failed, outcome>>
       \/ /\ dockerLog' = Append(dockerLog, Call("followProgress", FALSE))
          /\ BoxCatch("followProgress", ProgressError)
    /\ UNCHANGED <<inputs, container, boxIdle>>

\* const container = await docker.createContainer({ ..., HostConfig: { AutoRemove: true, ... } })
BoxCreateContainer ==
    /\ IsBox /\ bpc = "createContainer"
    /\ \/ /\ dockerLog' = Append(dockerLog, Call("createContainer", TRUE))
          /\ container' = "created"
          /\ bpc' = "attach"
          /\ UNCHANGED <<failed, outcome>>
       \/ \E e \in EngineErrors :
             /\ dockerLog' = Append(dockerLog, Call("createContainer", FALSE))
             /\ BoxCatch("createContainer", e)
             /\ UNCHANGED container
    /\ UNCHANGED <<inputs, boxIdle>>

\* const stream = await container.attach({ stream: true, stdout: true, stderr: true })
BoxAttach ==
    /\ IsBox /\ bpc = "attach"
    /\ \/ /\ dockerLog' = Append(dockerLog, Call("attach", TRUE))
          /\ bpc' = "start"
          /\ UNCHANGED <<failed, outcome>>
       \/ \E e \in EngineErrors :
             /\ dockerLog' = Append(dockerLog, Call("attach", FALSE))
             /\ BoxCatch("attach", e)
    /\ UNCHANGED <<inputs, container, boxIdle>>

\* await container.start(); register the 'data' handler; setTimeout(kill, executionTimeout);
\* call container.wait()
BoxStart ==
    /\ IsBox /\ bpc = "start"
    /\ \/ /\ dockerLog' = Append(dockerLog, Call("start", TRUE))
          /\ container' = "running"
          /\ timer' = "armed"
          /\ executionTimeout' = Times(Or(props.timeout, Num(30)), 1000)
          /\ bpc' = "wait"
          /\ UNCHANGED <<failed, outcome>>
       \/ \E e \in EngineErrors :
             /\ dockerLog' = Append(dockerLog, Call("start", FALSE))
             /\ BoxCatch("start", e)
             /\ UNCHANGED <<container, timer, executionTimeout>>
    /\ UNCHANGED <<inputs, exitStatus, killCalls, stdoutBuf, stderrBuf, wire, emitted,
                   result, hostLocals>>

(***************************************************************************)
(* The attached stream: bytes are strings, "#n" for the byte of value n    *)
(* and a character of the alphabet for a payload byte.  A frame is an      *)
(* 8-byte header (stream tag, three zero bytes, big-endian length) and the *)
(* payload.                                                                *)
(***************************************************************************)
NumByte(n) == "#" \o ToString(n)
Header(tag, n) == <<NumByte(tag), "#0", "#0", "#0", "#0", "#0", "#0", NumByte(n)>>
Frame(tag, payload) == Header(tag, Len(payload)) \o payload

\* the frames a container writing out to stdout and err to stderr puts on the stream
FramesOf(out, err) ==
    (IF out = <<>> THEN <<>> ELSE <<Frame(1, out)>>)
    \o (IF err = <<>> THEN <<>> ELSE <<Frame(2, err)>>)

\* data.slice(8)
Slice8(chunk) == SubSeq(chunk, 9, Len(chunk))

\* stream.on('data', chunk => { if (chunk[0] === 1) stdout += ...; else if (chunk[0] === 2) stderr += ... })
OnData(bufs, chunk) ==
    IF chunk # <<>> /\ chunk[1] = NumByte(1)
    THEN [stdout |-> bufs.stdout \o Slice8(chunk), stderr |-> bufs.stderr]
    ELSE IF chunk # <<>> /\ chunk[1] = NumByte(2)
    THEN [stdout |-> bufs.stdout, stderr |-> bufs.stderr \o Slice8(chunk)]
    ELSE bufs

NoOutput == [stdout |-> <<>>, stderr |-> <<>>]

\* the engine: the command of the running container ends, its output is on the stream,
\* AutoRemove deletes the container
ContainerExit ==
    /\ IsBox /\ container = "running"
    /\ \E code \in {0} \cup FailCodes, out \in StdoutTexts, err \in StderrTexts :
          /\ exitStatus' = Num(code)
          /\ emitted' = [stdout |-> out, stderr |-> err]
          /\ wire' = wire \o FramesOf(out, err)
    /\ container' = "removed"
    /\ UNCHANGED <<inputs, bpc, timer, killCalls, stdoutBuf, stderrBuf, executionTimeout,
                   dockerLog, failed, outcome, result, hostLocals>>

\* a 'data' event: the next chunk of the stream reaches the handler; here every frame
\* arrives as a chunk of its own
StreamData ==
    /\ IsBox /\ bpc = "wait" /\ wire # <<>>
    /\ LET bufs == OnData([stdout |-> stdoutBuf, stderr |-> stderrBuf], Head(wire))
       IN  stdoutBuf' = bufs.stdout /\ stderrBuf' = bufs.stderr
    /\ wire' = Tail(wire)
    /\ UNCHANGED <<inputs, bpc, container, exitStatus, timer, killCalls, executionTimeout,
                   emitted, dockerLog, failed, outcome, result, hostLocals>>

\* setTimeout(async () => { try { await container.kill() } catch (e) { } }, executionTimeout)
BoxTimerFires ==
    /\ IsBox /\ timer = "armed"
    /\ timer' = "fired"
    /\ killCalls' = killCalls + 1
    /\ \/ /\ container = "running"
          /\ dockerLog' = Append(dockerLog, Call("kill", TRUE))
          /\ container' = "removed"
          /\ exitStatus' = Num(137)
          /\ \E out \in PartialTexts, err \in StderrTexts :
                /\ emitted' = [stdout |-> out, stderr |-> err]
                /\ wire' = wire \o FramesOf(out, err)
       \/ /\ dockerLog' = Append(dockerLog, Call("kill", FALSE))
          /\ UNCHANGED <<container, exitStatus, emitted, wire>>
    /\ UNCHANGED <<inputs, bpc, stdoutBuf, stderrBuf, executionTimeout, failed, outcome,
                   result, hostLocals>>

\* variant: the timer is left armed
ClearedNot(t) == t

\* clearTimeout(timeoutHandle)
Cleared(t) == IF t = "armed" THEN "cleared" ELSE t

\* try { await container.wait() } finally { clearTimeout(timeoutHandle) }; parse; return
BoxWait ==
    /\ IsBox /\ bpc = "wait"
    /\ timer' = Cleared(timer)
    /\ \/ /\ container = "removed"
          /\ dockerLog' = Append(dockerLog, Call("wait", TRUE))
          /\ result' = BoxResult(stdoutBuf, stderrBuf)
          /\ outcome' = Returned(result')
          /\ bpc' = "done"
          /\ UNCHANGED failed
       \/ \E e \in EngineErrors :
             /\ dockerLog' = Append(dockerLog, Call("wait", FALSE))
             /\ BoxCatch("wait", e)
             /\ UNCHANGED result
    /\ UNCHANGED <<inputs, container, exitStatus, killCalls, stdoutBuf, stderrBuf,
                   executionTimeout, wire, emitted, hostLocals>>

BoxNext ==
    \/ BoxInspect \/ BoxPull \/ BoxFollowProgress \/ BoxCreateContainer
    \/ BoxAttach \/ BoxStart \/ ContainerExit \/ StreamData \/ BoxTimerFires \/ BoxWait

NoShell == [todo |-> <<>>, uid |-> "root", users |-> {"root"}, ran |-> <<>>, status |-> "none"]

NoFailure == [step |-> "none", error |-> Err(<<>>, Undefined, Undefined, Undefined)]

\* nothing is under study on the side
AsideIdle ==
    /\ frames = <<>>
    /\ chunks = <<>>
    /\ demux = NoOutput
    /\ sh = NoShell
    /\ reqs = <<>>
    /\ disk = {}
    /\ site = {}

\* the platform invokes one of these actions with some property values
Request(actions) ==
    /\ action \in actions
    /\ props \in [requirements : ReqInputs, timeout : TimeoutInputs,
                  pythonVersion : PythonVersions, captureOutput : BOOLEAN]
    /\ platform \in Platforms
    \* the sandboxed action declares neither captureOutput nor a platform-dependent path;
    \* its requirements only shape the container's command, which SetupScript describes
    /\ IsBox => ~props.captureOutput /\ platform = "linux" /\ props.requirements = Undefined
    /\ token \in Tokens

\* the locals of run() as it is entered
Fresh ==
    /\ hpc = "detect"
    /\ isDocker = FALSE
    /\ useVenv = TRUE
    /\ pipCommand = <<>>
    /\ pythonCommand = <<>>
    /\ cmdLog = <<>>
    /\ fsLog = <<>>
    /\ proc = NoProc
    /\ result = NoResult
    /\ outcome = NoOutcome
    /\ cleanupAttempts = 0
    /\ cleanupFailed = FALSE
    /\ bpc = "inspect"
    /\ container = "none"
    /\ exitStatus = Undefined
    /\ timer = "unset"
    /\ killCalls = 0
    /\ stdoutBuf = <<>>
    /\ stderrBuf = <<>>
    /\ executionTimeout = Undefined
    /\ wire = <<>>
    /\ emitted = NoOutput
    /\ dockerLog = <<>>
    /\ failed = NoFailure

\* no request is in flight
NoRequest ==
    /\ action = "none"
    /\ props = [requirements |-> Undefined, timeout |-> Undefined,
                pythonVersion |-> "python3", captureOutput |-> FALSE]
    /\ platform = "linux"
    /\ token \in Tokens

Init == Request(ActionNames) /\ Fresh /\ AsideIdle

Next == HostNext \/ BoxNext

Spec == Init /\ [][Next]_vars

(***************************************************************************)
(* The second runPythonCode of the source next to the first one            *)
(***************************************************************************)
\* mkdirSync(tempDir, { recursive: true }), the first statement of run()
PlainMkdir ==
    /\ IsPlain /\ hpc = "detect"
    /\ \/ /\ fsLog' = Append(fsLog, FsOp("mkdir", tempDir))
          /\ hpc' = "writeScript"
          /\ UNCHANGED result
       \/ /\ Caught(FsError("mkdir"))
          /\ UNCHANGED fsLog
    /\ UNCHANGED <<useVenv, pipCommand, pythonCommand, cmdLog, proc, hostFrame>>

\* writeFileSync(scriptPath, code)
PlainWriteScript ==
    /\ IsPlain /\ hpc = "writeScript"
    /\ \/ /\ fsLog' = Append(fsLog, FsOp("write", scriptPath))
          /\ hpc' = "venvCreate"
          /\ UNCHANGED result
       \/ /\ Caught(FsError("open"))
          /\ UNCHANGED fsLog
    /\ UNCHANGED <<useVenv, pipCommand, pythonCommand, cmdLog, proc, hostFrame>>

PlainVenvCmd == <<props.pythonVersion, "-m", "venv", PathStr(venvPath)>>

\* await execAsync(`${pythonVersion} -m venv ${venvPath}`, { timeout: 10000 }); pipPath; pythonPath
PlainVenvCreate ==
    /\ IsPlain /\ hpc = "venvCreate"
    /\ \/ /\ cmdLog' = Append(cmdLog, Cmd(PlainVenvCmd, Num(10000), TRUE))
          /\ fsLog' = Append(fsLog, FsOp("venv", venvPath))
          /\ pipCommand' = <<PathStr(pipPath)>>
          /\ pythonCommand' = <<PathStr(pythonPath)>>
          /\ hpc' = IF ReqDeclared THEN "writeRequirements" ELSE "runScript"
          /\ UNCHANGED result
       \/ \E err \in PipStderrs :
             /\ cmdLog' = Append(cmdLog, Cmd(PlainVenvCmd, Num(10000), FALSE))
             /\ Caught(ExecError(PlainVenvCmd, <<>>, err, Num(1)))
             /\ UNCHANGED <<fsLog, pipCommand, pythonCommand>>
    /\ UNCHANGED <<useVenv, proc, hostFrame>>

\* writeFileSync(requirementsPath, requirements)
PlainWriteRequirements ==
    /\ IsPlain /\ hpc = "writeRequirements"
    /\ \/ /\ fsLog' = Append(fsLog, FsOp("write", requirementsPath))
          /\ hpc' = "pipInstall"
          /\ UNCHANGED result
       \/ /\ Caught(FsError("open"))
          /\ UNCHANGED fsLog
    /\ UNCHANGED <<useVenv, pipCommand, pythonCommand, cmdLog, proc, hostFrame>>

PlainPipInstallCmd == pipCommand \o <<"install", "-r", PathStr(requirementsPath)>>

\* try { await execAsync(`${pipPath} install -r ...`, { timeout: 60000 }) }
\* catch (pipError) { console.warn(...) /* continue */ }
PlainPipInstall ==
    /\ IsPlain /\ hpc = "pipInstall"
    /\ \E ok \in BOOLEAN :
          cmdLog' = Append(cmdLog, Cmd(PlainPipInstallCmd, Num(60000), ok))
    /\ fsLog' = Append(fsLog, FsOp("install", Join(venvPath, "lib")))
    /\ hpc' = "runScript"
    /\ UNCHANGED <<useVenv, pipCommand, pythonCommand, proc, result, hostFrame>>

PlainNext ==
    \/ PlainMkdir \/ PlainWriteScript \/ PlainVenvCreate \/ PlainWriteRequirements
    \/ PlainPipInstall

InitVariants == Request(HostVariants) /\ Fresh /\ AsideIdle
NextVariants == HostNext \/ PlainNext
SpecVariants == InitVariants /\ [][NextVariants]_vars

(***************************************************************************)
(* Host requests in flight together: each run() is a chain of steps cut at *)
(* its awaits, the steps of different requests interleave, all of them     *)
(* work on one file system and one user site.                              *)
(***************************************************************************)
NumRequests == 2
Requests == 1..NumRequests
ConcTokens == {"a1b2c3d4e5f6071" \o ToString(k) : k \in Requests}

File(path, writer) == [path |-> path, writer |-> writer]
Written(d, path, r) == {e \in d : e.path # path} \cup {File(path, r)}
Removed(d, dir) == {e \in d : ~IsUnder(e.path, dir)}
Exists(d, path) == \E e \in d : e.path = path
\* who wrote the file at this path; 0 when there is none
WriterOf(d, path) == IF Exists(d, path) THEN (CHOOSE e \in d : e.path = path).writer ELSE 0

TempOf(r) == TempDirOf(reqs[r].token)
ScriptOf(r) == Join(TempOf(r), "script.py")
VenvOf(r) == Join(TempOf(r), "venv")
ManifestOf(r) == Join(TempOf(r), "requirements.txt")
VenvLibOf(r) == Join(VenvOf(r), "lib")

InitConc ==
    /\ NoRequest /\ Fresh
    /\ frames = <<>> /\ chunks = <<>> /\ demux = NoOutput /\ sh = NoShell
    /\ reqs \in {q \in [Requests -> [token : ConcTokens, useVenv : BOOLEAN, declared : BOOLEAN,
                                      pc : {"mkdir"}, script : {0}, visible : {{}},
                                      touched : {{}}]] :
                    \A a, b \in Requests : a # b => q[a].token # q[b].token}
    /\ disk = {}
    /\ site = {}

ConcFrame == <<frames, chunks, demux, sh, action, props, platform, token, hostLocals, result,
               outcome, boxVars>>

\* request r moves on, having touched this path
Moved(r, pc, path) ==
    reqs' = [reqs EXCEPT ![r].pc = pc, ![r].touched = @ \cup {path}]

\* mkdirSync(tempDir, { recursive: true })
ConcMkdir(r) ==
    /\ reqs[r].pc = "mkdir"
    /\ disk' = Written(disk, TempOf(r), r)
    /\ Moved(r, "writeScript", TempOf(r))
    /\ UNCHANGED <<site, ConcFrame>>

\* writeFileSync(scriptPath, code); throws into the catch when the directory is gone
ConcWriteScript(r) ==
    /\ reqs[r].pc = "writeScript"
    /\ IF Exists(disk, TempOf(r))
       THEN /\ disk' = Written(disk, ScriptOf(r), r)
            /\ Moved(r, IF reqs[r].useVenv THEN "venv"
                        ELSE IF reqs[r].declared THEN "writeRequirements" ELSE "runScript",
                     ScriptOf(r))
       ELSE /\ Moved(r, "finally", ScriptOf(r))
            /\ UNCHANGED disk
    /\ UNCHANGED <<site, ConcFrame>>

\* await execAsync(`${pythonVersion} -m venv ${venvPath}`)
ConcVenv(r) ==
    /\ reqs[r].pc = "venv"
    /\ disk' = Written(disk, VenvOf(r), r)
    /\ Moved(r, IF reqs[r].declared THEN "writeRequirements" ELSE "runScript", VenvOf(r))
    /\ UNCHANGED <<site, ConcFrame>>

\* writeFileSync(requirementsPath, requirements.trim())
ConcWriteRequirements(r) ==
    /\ reqs[r].pc = "writeRequirements"
    /\ IF Exists(disk, TempOf(r))
       THEN /\ disk' = Written(disk, ManifestOf(r), r)
            /\ Moved(r, "install", ManifestOf(r))
       ELSE /\ Moved(r, "finally", ManifestOf(r))
            /\ UNCHANGED disk
    /\ UNCHANGED <<site, ConcFrame>>

\* await execAsync(pipInstallCmd): into the venv, or with --user into the user site
ConcInstall(r) ==
    /\ reqs[r].pc = "install"
    /\ IF reqs[r].useVenv
       THEN /\ disk' = Written(disk, VenvLibOf(r), WriterOf(disk, ManifestOf(r)))
            /\ Moved(r, "runScript", VenvLibOf(r))
            /\ UNCHANGED site
       ELSE /\ site' = site \cup {WriterOf(disk, ManifestOf(r))}
            /\ Moved(r, "runScript", UserSite)
            /\ UNCHANGED disk
    /\ UNCHANGED ConcFrame

\* await execAsync(`${pythonCommand} ${scriptPath}`): the interpreter runs the file it
\* finds at scriptPath and imports from the venv or from the user site
ConcRunScript(r) ==
    /\ reqs[r].pc = "runScript"
    /\ reqs' = [reqs EXCEPT ![r].pc = "finally",
                            ![r].script = WriterOf(disk, ScriptOf(r)),
                            ![r].visible = IF reqs[r].useVenv
                                           THEN {e.writer : e \in {f \in disk : f.path = VenvLibOf(r)}}
                                           ELSE site]
    /\ UNCHANGED <<disk, site, ConcFrame>>

\* finally { rmdirSync(tempDir, { recursive: true }) }
ConcFinally(r) ==
    /\ reqs[r].pc = "finally"
    /\ disk' = Removed(disk, TempOf(r))
    /\ Moved(r, "done", TempOf(r))
    /\ UNCHANGED <<site, ConcFrame>>

NextConc ==
    \E r \in Requests :
       \/ ConcMkdir(r) \/ ConcWriteScript(r) \/ ConcVenv(r) \/ ConcWriteRequirements(r)
       \/ ConcInstall(r) \/ ConcRunScript(r) \/ ConcFinally(r)
SpecConc == InitConc /\ [][NextConc]_vars

(***************************************************************************)
(* The 'data' handler alone: the container emits a sequence of frames, the *)
(* stream hands their bytes to the handler in chunks cut anywhere.         *)
(***************************************************************************)
MaxFrames == 2
MaxCuts == 2
FramePayloads == {<<"h">>, <<"1", "h">>}

RECURSIVE SeqsUpTo(_, _)
SeqsUpTo(S, n) ==
    IF n = 0 THEN {<<>>}
    ELSE LET shorter == SeqsUpTo(S, n - 1)
         IN  shorter \cup {Append(q, x) : q \in {r \in shorter : Len(r) = n - 1}, x \in S}

FrameSeqs == SeqsUpTo([tag : {1, 2}, payload : FramePayloads], MaxFrames)

\* the bytes the engine writes for these frames
RECURSIVE Bytes(_)
Bytes(fs) == IF fs = <<>> THEN <<>> ELSE Frame(Head(fs).tag, Head(fs).payload) \o Bytes(Tail(fs))

Min(S) == CHOOSE x \in S : \A y \in S : x <= y

\* the chunks of s when it is cut after the positions in cuts
RECURSIVE Pieces(_, _, _)
Pieces(s, from, cuts) ==
    IF cuts = {} THEN <<SubSeq(s, from, Len(s))>>
    ELSE <<SubSeq(s, from, Min(cuts))>> \o Pieces(s, Min(cuts) + 1, cuts \ {Min(cuts)})

Chunkings(s) ==
    IF s = <<>> THEN {<<>>}
    ELSE {Pieces(s, 1, cuts) : cuts \in {c \in SUBSET (1..(Len(s) - 1)) : Cardinality(c) <= MaxCuts}}

\* the concatenated payloads of the frames of one stream
RECURSIVE Payloads(_, _)
Payloads(fs, tag) ==
    IF fs = <<>> THEN <<>>
    ELSE (IF Head(fs).tag = tag THEN Head(fs).payload ELSE <<>>) \o Payloads(Tail(fs), tag)

InitDemux ==
    /\ NoRequest /\ Fresh
    /\ frames \in FrameSeqs
    /\ chunks \in Chunkings(Bytes(frames))
    /\ demux = NoOutput
    /\ sh = NoShell
    /\ reqs = <<>> /\ disk = {} /\ site = {}

\* a 'data' event
DemuxData ==
    /\ chunks # <<>>
    /\ demux' = OnData(demux, Head(chunks))
    /\ chunks' = Tail(chunks)
    /\ UNCHANGED <<frames, sh, reqs, disk, site, action, props, platform, token, hostLocals,
                   result, outcome, boxVars>>

NextDemux == DemuxData
SpecDemux == InitDemux /\ [][NextDemux]_vars

(***************************************************************************)
(* The container's command alone: sh -c setupScript, run by the image's    *)
(* default user root.  The script has no 'set -e': a failing command does  *)
(* not end it.                                                             *)
(***************************************************************************)
Step(cmd, orTrue, body) == [cmd |-> cmd, orTrue |-> orTrue, body |-> body]
Simple(cmd) == Step(cmd, FALSE, <<>>)

\* variant: the command of the earlier sandbox, python started by the container's user
SetupScriptAsRoot(declared) ==
    IF declared THEN <<Simple("pip install"), Simple("python3")>> ELSE <<Simple("python3")>>

\* const setupScript = `useradd ... || true ... su - pyuser -c "... | base64 -d | python3"`
SetupScript(declared) ==
    IF declared
    THEN <<Step("useradd", TRUE, <<>>), Step("ensurepip", TRUE, <<>>), Simple("pip install"),
           Step("su", FALSE, <<Simple("cd"), Simple("export"), Simple("export"),
                               Simple("python3")>>)>>
    ELSE <<Step("useradd", TRUE, <<>>),
           Step("su", FALSE, <<Simple("export"), Simple("python3")>>)>>

ShellReqs == ReqInputs \cup {Str(<<"1", " ", "1">>)}

InitShell ==
    /\ action = "none"
    /\ props \in [requirements : ShellReqs, timeout : {Undefined},
                  pythonVersion : PythonVersions, captureOutput : {FALSE}]
    /\ platform = "linux"
    /\ token \in Tokens
    /\ Fresh
    /\ frames = <<>> /\ chunks = <<>> /\ demux = NoOutput
    /\ reqs = <<>> /\ disk = {} /\ site = {}
    /\ sh = [NoShell EXCEPT !.todo = SetupScript(ReqDeclared), !.status = "running"]

ShellAt(cmds) == sh.status = "running" /\ sh.todo # <<>> /\ Head(sh.todo).cmd \in cmds

\* the shell has run its current command, with this exit status, and goes on with rest
Ran(ok, rest, uid, users) ==
    /\ sh' = [todo |-> rest, uid |-> uid, users |-> users,
              ran |-> Append(sh.ran, [cmd |-> Head(sh.todo).cmd, uid |-> sh.uid, ok |-> ok]),
              status |-> IF rest = <<>> THEN "exited" ELSE "running"]
    /\ UNCHANGED <<frames, chunks, demux, reqs, disk, site, action, props, platform, token,
                   hostLocals, result, outcome, boxVars>>

\* useradd -m -d /home/pyuser -s /bin/bash pyuser 2>/dev/null || true
ShUseradd ==
    /\ ShellAt({"useradd"})
    /\ \E ok \in BOOLEAN :
          Ran(ok, Tail(sh.todo), sh.uid,
              IF ok /\ sh.uid = "root" THEN sh.users \cup {"pyuser"} ELSE sh.users)

\* python3 -m ensurepip --upgrade >/dev/null 2>&1 || true
ShEnsurePip ==
    /\ ShellAt({"ensurepip"})
    /\ \E ok \in BOOLEAN : Ran(ok, Tail(sh.todo), sh.uid, sh.users)

\* python3 -m pip install --quiet --no-cache-dir --root-user-action=ignore ${requirementsList}
ShPipInstall ==
    /\ ShellAt({"pip install"})
    /\ \E ok \in BOOLEAN : Ran(ok, Tail(sh.todo), sh.uid, sh.users)

\* su - pyuser -c "...": fails when the user does not exist
ShSu ==
    /\ ShellAt({"su"})
    /\ IF "pyuser" \in sh.users /\ sh.uid = "root"
       THEN Ran(TRUE, Head(sh.todo).body \o <<Simple("exit")>> \o Tail(sh.todo), "pyuser",
                sh.users)
       ELSE Ran(FALSE, Tail(sh.todo), sh.uid, sh.users)

\* cd /home/pyuser; export PATH=...; export PYTHONPATH=...
ShBuiltin ==
    /\ ShellAt({"cd", "export"})
    /\ \E ok \in BOOLEAN :
          /\ Head(sh.todo).cmd = "export" => ok
          /\ Ran(ok, Tail(sh.todo), sh.uid, sh.users)

\* echo '${encodedCode}' | base64 -d | python3
ShPython ==
    /\ ShellAt({"python3"})
    /\ \E ok \in BOOLEAN : Ran(ok, Tail(sh.todo), sh.uid, sh.users)

\* the shell started by su ends
ShExit ==
    /\ ShellAt({"exit"})
    /\ Ran(TRUE, Tail(sh.todo), "root", sh.users)

NextShell == ShUseradd \/ ShEnsurePip \/ ShPipInstall \/ ShSu \/ ShBuiltin \/ ShPython \/ ShExit
SpecShell == InitShell /\ [][NextShell]_vars

(***************************************************************************)
(* Properties                                                              *)
(***************************************************************************)
Last(q) == q[Len(q)]
HostEnded == IsHost /\ hpc \in {"finally", "done"}

\* C1: in the host executor every exit of the try block attempts the recursive deletion of
\* the temp directory exactly once, after the result object is determined; a failing
\* deletion changes neither the returned result nor lets an exception reach the caller.
CleanupOnceAfterResult ==
    IsHost =>
       /\ cleanupAttempts <= 1
       /\ (cleanupAttempts = 1 => result.built /\ Last(fsLog) = FsOp("rmdir", tempDir))
       /\ (hpc = "finally" => cleanupAttempts = 0 /\ result.built /\ outcome = NoOutcome)
       /\ (hpc = "done" => cleanupAttempts = 1 /\ outcome = Returned(result))
       /\ (hpc \notin {"detect", "rejected", "finally", "done"} =>
              cleanupAttempts = 0 /\ ~result.built /\ outcome = NoOutcome)

CleanupFailedAfterSuccess ==
    /\ IsHost /\ hpc = "done" /\ cleanupFailed
    /\ outcome.kind = "returned" /\ outcome.value.success

\* C2: once the container executor has returned or thrown, no container created for the
\* request remains.
NoContainerRemains ==
    (IsBox /\ bpc = "done") => container \in {"none", "removed"}

IsPipCheck(c) == c.argv = PipCheckCmd
NamesPip(message) ==
    Includes(message, "pip is not available") \/ Includes(message, "pip is not installed")

\* C3: in the host executor, with requirements declared, a failed pip availability check
\* ends the run with success:false and an error naming pip; neither pip install nor the
\* script is executed.
PipGate ==
    IsHost =>
       \A i \in DOMAIN cmdLog :
          (IsPipCheck(cmdLog[i]) /\ ~cmdLog[i].ok) =>
             /\ ReqDeclared
             /\ i = Len(cmdLog)
             /\ ~proc.ran
             /\ hpc \in {"finally", "done"}
             /\ ~result.success /\ NamesPip(result.error)
             /\ (hpc = "done" => outcome = Returned(result))

PipMissingInSystemMode ==
    /\ IsHost /\ hpc = "done" /\ ~useVenv /\ ReqDeclared
    /\ cmdLog # <<>> /\ IsPipCheck(Last(cmdLog)) /\ ~Last(cmdLog).ok
    /\ ~outcome.value.success

ScriptSucceeded == proc.ran /\ proc.status = "exit" /\ proc.exit = Num(0)

\* C4: the host executor returns success:true only if the script ran and exited with
\* status 0; a failed script run gives success:false with a non-empty error, the captured
\* stdout and stderr, and for a non-zero exit the exit status as code.
ScriptOutcome ==
    HostEnded =>
       /\ (result.success => ScriptSucceeded)
       /\ (proc.ran /\ ~ScriptSucceeded =>
              /\ ~result.success
              /\ result.error # <<>>
              /\ result.stdout = Str(proc.stdout)
              /\ result.stderr = Str(proc.stderr)
              /\ (proc.status = "exit" => result.code = proc.exit))
       /\ (hpc = "done" => outcome = Returned(result))

ScriptExitedNonZero ==
    /\ IsHost /\ hpc = "done" /\ proc.status = "exit" /\ proc.exit = Num(2)
    /\ proc.stdout # <<>> /\ proc.stderr # <<>>

\* C5: the container executor returns success:true only when the container exited with
\* status 0 before the timeout; a kill on timeout or a non-zero exit is reported as failure.
BoxFailureReported ==
    (IsBox /\ outcome.kind = "returned" /\ outcome.value.success) =>
        exitStatus = Num(0) /\ Call("kill", TRUE) \notin Range(dockerLog)

\* the JSON texts of at most MaxStdoutLen characters over the alphabet, with the values
\* they denote, generated from the grammar: a number is a run of digits, an array is
\* brackets around nothing or around one padded value
Spaces(n) == [i \in 1..n |-> " "]
Ones(n) == [i \in 1..n |-> "1"]
RECURSIVE Repunit(_)
Repunit(n) == IF n = 0 THEN 0 ELSE 10 * Repunit(n - 1) + 1

RECURSIVE JSONTexts(_)
JSONTexts(depth) ==
    IF depth = 0
    THEN {[text |-> Ones(n), val |-> Num(Repunit(n))] : n \in 1..MaxStdoutLen}
    ELSE LET inner == JSONTexts(depth - 1)
             pads == 0..MaxStdoutLen
             empty == {[text |-> <<"[">> \o Spaces(a) \o <<"]">>, val |-> Arr(<<>>)] : a \in pads}
             nested == {[text |-> <<"[">> \o Spaces(a) \o e.text \o Spaces(b) \o <<"]">>,
                         val |-> Arr(<<e.val>>)] : e \in inner, a \in pads, b \in pads}
         IN  {e \in inner \cup empty \cup nested : Len(e.text) <= MaxStdoutLen}

JSONDenotations == JSONTexts(MaxStdoutLen \div 2)

\* the text from the first to the last non-whitespace character of s
Trimmed(s) ==
    LET inked == {i \in 1..Len(s) : s[i] \notin Whitespace}
    IN  IF inked = {} THEN <<>>
        ELSE SubSeq(s, CHOOSE i \in inked : \A j \in inked : i <= j,
                       CHOOSE i \in inked : \A j \in inked : i >= j)

Decoded(s) ==
    IF \E e \in JSONDenotations : e.text = Trimmed(s)
    THEN (CHOOSE e \in JSONDenotations : e.text = Trimmed(s)).val
    ELSE Str(Trimmed(s))

\* C6: in both executors a run that reaches the decode step returns success:true with
\* output equal to the JSON value of the trimmed stdout when that is valid JSON and to the
\* trimmed stdout text otherwise.
DecodeRoundTrip ==
    /\ (HostEnded /\ ScriptSucceeded) =>
           result.success /\ result.output = Decoded(proc.stdout)
    /\ (IsHost /\ hpc = "done" /\ ScriptSucceeded) => outcome = Returned(result)
    /\ (IsBox /\ dockerLog # <<>> /\ Last(dockerLog) = Call("wait", TRUE)) =>
           /\ outcome.kind = "returned"
           /\ outcome.value.success
           /\ outcome.value.output = Decoded(stdoutBuf)

PaddedJSONDecoded ==
    /\ IsBox /\ outcome.kind = "returned"
    /\ stdoutBuf = <<" ", "[", "]">>
    /\ outcome.value.output = Arr(<<>>)

\* C7: the host executor never throws across the external boundary: every failure of a
\* step of run() ends in a returned result with success:false and an error string.
HostNeverThrows ==
    IsHost =>
       /\ outcome.kind # "thrown"
       /\ (outcome.kind = "returned" /\ ~outcome.value.success => outcome.value.error # <<>>)

EnsureImageSteps == {"pull", "followProgress"}

\* C8: in the container executor the image-not-found error is thrown exactly when the
\* failed step was ensuring the base image; a message containing 'connect ENOENT' gives
\* the socket-not-found error; every other error is rethrown unchanged.
ErrorTranslation ==
    (IsBox /\ outcome.kind = "thrown") =>
        IF Includes(failed.error.message, "connect ENOENT")
        THEN outcome.value = SocketNotFound
        ELSE IF failed.step \in EnsureImageSteps
        THEN outcome.value = ImageNotFound
        ELSE outcome.value = failed.error

VenvSteps == {"pythonCheck", "venvCheck", "venvCreate", "venvCopies"}
VersionCmd == <<props.pythonVersion, "--version">>
VenvHelpCmd == <<props.pythonVersion, "-m", "venv", "--help">>
VenvCmd == <<props.pythonVersion, "-m", "venv", PathStr(venvPath)>>
VenvCopiesCmd == <<props.pythonVersion, "-m", "venv", "--copies", PathStr(venvPath)>>
StandardAttempt == {VersionCmd, VenvHelpCmd, VenvCmd}
VenvCreated == \E i \in DOMAIN cmdLog : cmdLog[i].argv \in {VenvCmd, VenvCopiesCmd} /\ cmdLog[i].ok

VenvOrder ==
    (IsHost /\ ~isDocker) =>
       /\ cmdLog # <<>> => cmdLog[1].argv = VersionCmd
       /\ \A i \in DOMAIN cmdLog :
             cmdLog[i].argv = VenvCopiesCmd =>
                /\ i > 1
                /\ cmdLog[i - 1].argv \in StandardAttempt /\ ~cmdLog[i - 1].ok
                /\ \A j \in DOMAIN cmdLog : j # i => cmdLog[j].argv # VenvCopiesCmd
                /\ \A j \in DOMAIN cmdLog : cmdLog[j].argv = VenvCmd => j < i
       /\ pythonCommand # <<>> =>
             IF VenvCreated
             THEN useVenv /\ pythonCommand = <<PathStr(pythonPath)>>
             ELSE /\ ~useVenv /\ pythonCommand = <<props.pythonVersion>>
                  /\ \E i \in DOMAIN cmdLog : cmdLog[i].argv = VenvCopiesCmd /\ ~cmdLog[i].ok
       /\ proc.ran => Last(cmdLog).argv = pythonCommand \o <<PathStr(scriptPath)>>

VenvNeverFails ==
    (IsHost /\ hpc \in VenvSteps) =>
        /\ hpc' \in VenvSteps \cup {"writeRequirements", "runScript"}
        /\ ~result'.built

\* C9: on a non-container host the standard venv creation is attempted first, the
\* '--copies' creation only after the standard attempt failed and at most once, and the
\* system interpreter is selected only after both failed; a provisioning failure never
\* produces a failure result, the run proceeds with the venv or the system interpreter.
VenvEscalation == [](VenvOrder) /\ [][VenvNeverFails]_vars

SystemPythonAfterBothFailed ==
    /\ IsHost /\ hpc = "done" /\ ~isDocker /\ ~useVenv
    /\ \E i \in DOMAIN cmdLog : cmdLog[i].argv = VenvCmd /\ ~cmdLog[i].ok
    /\ ScriptSucceeded /\ outcome.value.success

Positive(ms) == ms.t = "num" /\ ms.v > 0
ScriptCmd == pythonCommand \o <<PathStr(scriptPath)>>

\* the bound the documentation promises for this request: the user's seconds when
\* positive, 30 seconds otherwise, in milliseconds
PromisedBound == IF Positive(props.timeout) THEN Num(props.timeout.v * 1000) ELSE Num(30000)

\* C12: every time bound derived from the user's timeout (the host script run, the host
\* pip install, the container kill timer) is positive, and a missing, zero or negative
\* timeout is replaced by the 30 s default rather than rejected or left unbounded.
TimeBoundsPositive ==
    /\ IsHost =>
          /\ \A i \in DOMAIN cmdLog :
                cmdLog[i].argv \in {PipInstallCmd, ScriptCmd} =>
                   Positive(cmdLog[i].timeout) /\ cmdLog[i].timeout = PromisedBound
          /\ result.code # RangeError.code
    /\ (IsBox /\ timer # "unset") =>
          Positive(executionTimeout) /\ executionTimeout = PromisedBound

\* C13 as stated: with captureOutput false the host result carries neither stdout nor
\* stderr, on the success path and on the failure path.
OutputOmittedUnlessCaptured ==
    (HostEnded /\ ~props.captureOutput) =>
       result.stdout = Undefined /\ result.stderr = Undefined

\* C13 as amended: on the success path stdout and stderr carry the script's output when
\* captureOutput is set and are omitted otherwise; on the failure path they are always
\* strings, what the failed command had written or '', whatever captureOutput says.
OutputOmittedOnSuccessOnly ==
    HostEnded =>
       IF result.success
       THEN /\ result.stdout = (IF props.captureOutput THEN Str(proc.stdout) ELSE Undefined)
            /\ result.stderr = (IF props.captureOutput THEN Str(proc.stderr) ELSE Undefined)
       ELSE /\ result.stdout.t = "str" /\ result.stderr.t = "str"
            /\ proc.ran => result.stdout = Str(proc.stdout) /\ result.stderr = Str(proc.stderr)

UncapturedSuccess ==
    /\ IsHost /\ hpc = "done" /\ ~props.captureOutput
    /\ outcome.value.success /\ proc.stdout # <<>> /\ proc.stderr # <<>>
    /\ outcome.value.stdout = Undefined

SystemPipInstallCmd ==
    <<props.pythonVersion, "-m", "pip", "install", "--user", "-r", PathStr(requirementsPath)>>
MentionsVenv(argv) ==
    \/ "venv" \in Range(argv)
    \/ \E k \in DOMAIN argv : argv[k] \in {PathStr(pipPath), PathStr(pythonPath), PathStr(venvPath)}

\* C15: when the host is detected as a container, the host executor issues no venv command
\* (no check, no standard creation, no --copies retry), runs the script with the system
\* interpreter and installs requirements with '<interpreter> -m pip install --user'.
ContainerHostUsesSystemPython ==
    (IsHost /\ isDocker) =>
       /\ ~useVenv
       /\ \A i \in DOMAIN cmdLog :
             /\ ~MentionsVenv(cmdLog[i].argv)
             /\ PathStr(scriptPath) \in Range(cmdLog[i].argv) =>
                   cmdLog[i].argv = <<props.pythonVersion, PathStr(scriptPath)>>
             /\ "install" \in Range(cmdLog[i].argv) => cmdLog[i].argv = SystemPipInstallCmd

ContainerHostInstalledAndRan ==
    /\ IsHost /\ isDocker /\ hpc = "done" /\ ScriptSucceeded
    /\ Cmd(SystemPipInstallCmd, Num(2000), TRUE) \in Range(cmdLog)

\* C16: the sandboxed executor's result holds everything the container wrote before it
\* exited or was killed: once wait() has resolved, the returned stdout and stderr are the
\* container's whole output, however the stream's delivery interleaves with the wait.
OutputComplete ==
    (IsBox /\ outcome.kind = "returned") =>
       /\ outcome.value.stdout = Str(emitted.stdout)
       /\ outcome.value.stderr = Str(emitted.stderr)

Calls(name) == {i \in DOMAIN dockerLog : dockerLog[i].call = name}
Before(name, i) == \E j \in Calls(name) : j < i

KillDiscipline ==
    IsBox =>
       /\ killCalls <= 1
       /\ Cardinality(Calls("kill")) = killCalls
       /\ (timer = "fired") <=> (killCalls = 1)
       /\ \A i \in Calls("kill") : ~Before("wait", i) /\ Call("start", TRUE) \in Range(dockerLog)
       /\ timer # "unset" => Call("start", TRUE) \in Range(dockerLog)
       /\ Calls("wait") # {} => timer # "armed"
       /\ bpc = "done" => timer # "armed"

KillSwallowed ==
    /\ (IsBox /\ bpc = "done") => killCalls' = killCalls
    /\ (IsBox /\ Len(dockerLog') > Len(dockerLog) /\ Last(dockerLog') = Call("kill", FALSE)) =>
          UNCHANGED <<bpc, outcome, result, failed, container, exitStatus>>

\* C17: in the sandboxed executor kill is issued exactly when the timer fires before
\* wait() settles, and at most once; the timer is armed only after the container started
\* and is cleared on every exit of the wait, so no kill is issued once wait() has settled
\* or the executor has returned; a failing kill leaves the run's outcome untouched.
KillOnlyWhileWaiting == [](KillDiscipline) /\ [][KillSwallowed]_vars

KillFailedThenReturned ==
    /\ IsBox /\ bpc = "done" /\ outcome.kind = "returned"
    /\ Call("kill", FALSE) \in Range(dockerLog)
    /\ timer = "fired" /\ killCalls = 1

ImageOrder ==
    IsBox =>
       /\ \A i \in Calls("pull") : i = 2 /\ dockerLog[1] = Call("inspect", FALSE)
       /\ (dockerLog # <<>> /\ dockerLog[1] = Call("inspect", FALSE) /\ bpc # "pull") =>
             Calls("pull") # {}
       /\ \A i \in Calls("createContainer") :
             i > 1 /\ dockerLog[i - 1] \in {Call("inspect", TRUE), Call("followProgress", TRUE)}
       /\ \A i \in Calls("followProgress") : i > 1 /\ dockerLog[i - 1] = Call("pull", TRUE)
       /\ (Call("pull", FALSE) \in Range(dockerLog)
           \/ Call("followProgress", FALSE) \in Range(dockerLog)) =>
             /\ bpc = "done" /\ outcome.kind = "thrown" /\ container = "none"
             /\ Calls("createContainer") \cup Calls("attach") \cup Calls("start") = {}

\* C18: the image is ensured before a container is created: pull is invoked exactly when
\* the inspect failed; createContainer is called only after the inspect succeeded or the
\* pull ran to completion; when the pull or its progress reports an error, no container is
\* created, attached or started and the executor throws.
ImageEnsuredFirst == [](ImageOrder)

PulledThenCreated ==
    /\ IsBox /\ Len(dockerLog) >= 4
    /\ SubSeq(dockerLog, 1, 4) = <<Call("inspect", FALSE), Call("pull", TRUE),
                                   Call("followProgress", TRUE), Call("createContainer", TRUE)>>

\* C19: for every sequence of frames the container emits and every way its bytes are cut
\* into 'data' chunks, once all chunks are handled the stdout buffer is the concatenation
\* of the payloads of the frames tagged 1 and the stderr buffer that of the frames tagged
\* 2, with no header byte and no payload of the other stream in either.
DemuxExact ==
    (action = "none" /\ chunks = <<>>) =>
       /\ demux.stdout = Payloads(frames, 1)
       /\ demux.stderr = Payloads(frames, 2)

ShRan(cmd, uid, ok) == [cmd |-> cmd, uid |-> uid, ok |-> ok]
ShEarlier(i, entries) == \E j \in 1..(i - 1) : sh.ran[j] \in entries

\* C11: in the container the user code never runs with elevated privilege: with and
\* without requirements it runs only inside the 'su - pyuser' step, after the user was
\* created and after the root-level package installation ended; when creating the user
\* failed, the code is not run at all.
CodeRunsUnprivileged ==
    sh.status # "none" =>
       /\ \A i \in DOMAIN sh.ran :
             sh.ran[i].cmd = "python3" =>
                /\ sh.ran[i].uid = "pyuser"
                /\ ShEarlier(i, {ShRan("useradd", "root", TRUE)})
                /\ ShEarlier(i, {ShRan("su", "root", TRUE)})
                /\ ReqDeclared =>
                      ShEarlier(i, {ShRan("pip install", "root", ok) : ok \in BOOLEAN})
       /\ ShRan("useradd", "root", FALSE) \in Range(sh.ran) =>
             \A i \in DOMAIN sh.ran : sh.ran[i].cmd # "python3"

CodeRanAsPyuserAfterInstall ==
    /\ sh.status = "exited" /\ ReqDeclared
    /\ ShRan("python3", "pyuser", TRUE) \in Range(sh.ran)
    /\ ShRan("pip install", "root", TRUE) \in Range(sh.ran)

IsInstall(c) == "install" \in Range(c.argv)
RunsTheScript(c) == PathStr(scriptPath) \in Range(c.argv)

\* C20: in both host executors a failed pip install is terminal: once the install command
\* has failed the script is never run and the result is success:false with the install
\* error.
InstallFailureTerminal ==
    IsHostVariant =>
       \A i \in DOMAIN cmdLog :
          (IsInstall(cmdLog[i]) /\ ~cmdLog[i].ok) =>
             /\ \A j \in DOMAIN cmdLog : j > i => ~RunsTheScript(cmdLog[j])
             /\ hpc # "pipInstall" => (result.built /\ ~result.success /\ result.error # <<>>)

\* the files a request has on disk while it is between writing its script and its cleanup
FilesOf(r) ==
    {ScriptOf(r)}
    \cup (IF reqs[r].useVenv /\ reqs[r].pc # "venv" THEN {VenvOf(r)} ELSE {})
    \cup (IF reqs[r].pc \in {"install", "runScript"} /\ reqs[r].declared
          THEN {ManifestOf(r)} ELSE {})
InFlight(r) == reqs[r].pc \in {"venv", "writeRequirements", "install", "runScript"}
OwnFilesIntact(r) == InFlight(r) => \A p \in FilesOf(r) : WriterOf(disk, p) = r
OwnPackages(r) == IF reqs[r].declared THEN {r} ELSE {}
Ended(r) == reqs[r].pc \in {"finally", "done"}

====
